---- MODULE Spec2Model ----
(***************************************************************************)
(* State-machine model of ClaudeCLIWrapper                                 *)
(* (src/scripts/test_cc_cli_multiplex.py): a full-duplex client that       *)
(* drives a child process over three pipes, with two reader threads, a     *)
(* stderr logger thread and the caller's thread doing send / wait / stop.  *)
(***************************************************************************)
EXTENDS Integers, Sequences, FiniteSets, TLC

\* ------------------------------------------------------------------ bounds
MaxEmit == 2      \* primary-stream lines the process emits in one run
MaxErr == 1       \* diagnostic-stream lines the process emits in one run
MaxSends == 2     \* send calls the caller makes in one run
MaxWaits == 2     \* wait_for_result calls the caller makes in one run
MaxStops == 1     \* stop calls the caller makes in one run
MaxBody == 1      \* non-terminal lines per answer of the well-behaved process

\* ------------------------------------------------------------- line shapes
\* A line of the primary stream is identified by its shape (what json.loads
\* and the dispatch of wait_for_result see in it), the position at which the
\* process emitted it, and the request it answers (0: unsolicited).
NonJsonShapes == {"garbage", "blank"}
JsonShapes ==
  {"scalar", "thinking", "status", "tool_use", "assistant_nested",
   "assistant_text", "assistant_nullmsg", "user_nested", "user_nomsg",
   "user_strcontent",
   "error_obj", "error_str", "error_null", "error_absent", "result", "other",
   "notype"}
Shapes == NonJsonShapes \cup JsonShapes

Line(shape, id, req) == [shape |-> shape, id |-> id, req |-> req]

\* What the pipe carries: the text followed by its newline.
RawLine(text) == [text |-> text, nl |-> TRUE]

\* str.strip() applied by the reader to what readline returned.
Strip(raw) == raw.text

\* json.loads: a JSONDecodeError for text that is no JSON document, else the
\* decoded value.  A decoded value keeps the identity of its line.
NoEvent == [kind |-> "JSONDecodeError"]

EventOf(line) ==
  LET base == [kind |-> "dict", type |-> "absent", error |-> "absent",
               message |-> "absent", content |-> "absent",
               id |-> line.id, req |-> line.req]
  IN CASE line.shape = "scalar" -> [base EXCEPT !.kind = "scalar"]
       [] line.shape = "thinking" -> [base EXCEPT !.type = "thinking"]
       [] line.shape = "status" -> [base EXCEPT !.type = "status"]
       [] line.shape = "tool_use" -> [base EXCEPT !.type = "tool_use"]
       [] line.shape = "assistant_nested" ->
            [base EXCEPT !.type = "assistant", !.message = "dict", !.content = "blocks_tool"]
       [] line.shape = "assistant_text" ->
            [base EXCEPT !.type = "assistant", !.message = "dict", !.content = "blocks_text"]
       [] line.shape = "assistant_nullmsg" ->
            [base EXCEPT !.type = "assistant", !.message = "null"]
       [] line.shape = "user_nested" ->
            [base EXCEPT !.type = "user", !.message = "dict", !.content = "blocks_tool"]
       [] line.shape = "user_nomsg" -> [base EXCEPT !.type = "user"]
       [] line.shape = "user_strcontent" ->
            [base EXCEPT !.type = "user", !.message = "dict", !.content = "str"]
       [] line.shape = "error_obj" -> [base EXCEPT !.type = "error", !.error = "obj"]
       [] line.shape = "error_str" -> [base EXCEPT !.type = "error", !.error = "str"]
       [] line.shape = "error_null" -> [base EXCEPT !.type = "error", !.error = "null"]
       [] line.shape = "error_absent" -> [base EXCEPT !.type = "error"]
       [] line.shape = "result" -> [base EXCEPT !.type = "result"]
       [] line.shape = "other" -> [base EXCEPT !.type = "other"]
       [] OTHER -> base

\* Faulty variant: a decoder that accepts any text as an event.
json_loads_lenient(line) == EventOf(line)

json_loads(line) == IF line.shape \in NonJsonShapes THEN NoEvent ELSE EventOf(line)

\* The dispatch on the decoded event, lines 113-130: "continue" (the loop goes
\* on), "return" (return True, events) or "raise" (an exception that neither
\* except clause of the loop catches leaves wait_for_result).
NestedBlocks(event) ==
  \* event.get("message", {}).get("content", []) and the loop over its blocks
  CASE event.message = "absent" -> "continue"
    [] event.message # "dict" -> "raise"
    [] event.content \in {"absent", "blocks_tool", "blocks_text"} -> "continue"
    [] OTHER -> "raise"

ErrorMessage(event) ==
  \* event.get('error', {}).get('message', event.get('error'))
  IF event.error \in {"absent", "obj"} THEN "continue" ELSE "raise"

\* Faulty variant: an event of no recognized type is refused.
DispatchRejectsUnknown(event) ==
  IF event.kind # "dict" THEN "raise"
  ELSE CASE event.type \in {"thinking", "status"} -> "continue"
         [] event.type = "tool_use" -> "continue"
         [] event.type \in {"assistant", "user"} -> NestedBlocks(event)
         [] event.type = "error" -> ErrorMessage(event)
         [] event.type = "result" -> "return"
         [] OTHER -> "raise"

Dispatch(event) ==
  IF event.kind # "dict" THEN "raise"      \* event.get on a non-object
  ELSE CASE event.type \in {"thinking", "status"} -> "continue"
         [] event.type = "tool_use" -> "continue"
         [] event.type \in {"assistant", "user"} -> NestedBlocks(event)
         [] event.type = "error" -> ErrorMessage(event)
         [] event.type = "result" -> "return"
         [] OTHER -> "continue"

\* What the dispatch prints or logs for one event before it continues, returns
\* or raises: the dot of line 115, the tool call of line 118, one nested tool
\* call per tool_use block (line 123), the error of line 126, the end of the
\* request (lines 128-129).  An event of any other type leaves no trace.
Out(cat, event, nested) == [cat |-> cat, id |-> event.id, nested |-> nested]

\* Faulty variant: the content blocks of a message are not looked at.
NoNestedToolCalls(event) == <<>>

NestedToolCalls(event) ==
  IF event.message = "dict" /\ event.content = "blocks_tool"
    THEN <<Out("tool_use", event, TRUE)>>
    ELSE <<>>

Effects(event) ==
  IF event.kind # "dict" THEN <<>>
  ELSE CASE event.type \in {"thinking", "status"} -> <<Out("progress", event, FALSE)>>
         [] event.type = "tool_use" -> <<Out("tool_use", event, FALSE)>>
         [] event.type \in {"assistant", "user"} -> NestedToolCalls(event)
         [] event.type = "error" ->
              IF ErrorMessage(event) = "continue"
                THEN <<Out("error", event, FALSE)>> ELSE <<>>
         [] event.type = "result" -> <<Out("result", event, FALSE)>>
         [] OTHER -> <<>>

\* ------------------------------------------------------------------- state
VARIABLES
  process,        \* self.process: "None" before start(), "Popen" after
  proc,           \* the child: [state: unborn | alive | dead, code: exit status]
  sigterm,        \* terminate() has signalled the child and it has not reacted yet
  stdin,          \* raw lines written to the child's input pipe
  stdinOpen,      \* the child still holds the read end of its input pipe
  stdoutPipe,     \* raw lines the child wrote to stdout, not yet read
  stderrPipe,     \* raw lines the child wrote to stderr, not yet read
  stdout_queue,   \* self.stdout_queue
  stderr_queue,   \* self.stderr_queue
  running,        \* self.running
  event_log,      \* self.event_log
  reader,         \* position of the two _reader_thread threads
  loggerPc,       \* position of the _stderr_logger thread
  warnings,       \* lines _stderr_logger has logged as warnings
  pc,             \* position of the caller's thread
  events,         \* the local list of the wait_for_result call in progress
  history,        \* completed API calls with what each gave back to the caller
  emitted,        \* the lines the process has written to stdout, in order
  nErr,           \* diagnostic-stream lines emitted so far
  answering,      \* well-behaved process: [req, left] of the answer in progress
  console,        \* what the dispatch of wait_for_result printed or logged
  session_id,     \* self.session_id
  prior           \* the wrapper object this one replaced, if any, with its
                  \* process, pipe, queues and log; <<>> when there is none

vars == <<process, proc, sigterm, stdin, stdinOpen, stdoutPipe, stderrPipe,
          stdout_queue, stderr_queue, running, event_log, reader, loggerPc,
          warnings, pc, events, history, emitted, nErr, answering, console,
          session_id, prior>>

procVars == <<proc, sigterm, stdinOpen, emitted, nErr, answering>>
pipeVars == <<stdoutPipe, stderrPipe>>
queueVars == <<stdout_queue, stderr_queue>>
threadVars == <<reader, loggerPc, warnings>>
callerVars == <<pc, events, history>>
outVars == <<console>>
sessVars == <<session_id, prior>>

ExitCodes == {0, 1}
Idle == [req |-> 0, left |-> 0]

\* Line 16: session_id or str(uuid.uuid4()).
Falsy == {"None", ""}
SessionId(arg) == IF arg \in Falsy THEN "uuid4" ELSE arg

\* Lines 158-159: the identifier the caller made for its first wrapper.
CallerId == "id1"

\* ClaudeCLIWrapper.__init__
Init ==
  /\ process = "None"
  /\ proc = [state |-> "unborn", code |-> 0]
  /\ sigterm = FALSE
  /\ stdin = <<>>
  /\ stdinOpen = FALSE
  /\ stdoutPipe = <<>>
  /\ stderrPipe = <<>>
  /\ stdout_queue = <<>>
  /\ stderr_queue = <<>>
  /\ running = FALSE
  /\ event_log = <<>>
  /\ reader = [STDOUT |-> "unstarted", STDERR |-> "unstarted"]
  /\ loggerPc = "unstarted"
  /\ warnings = <<>>
  /\ pc = "idle"
  /\ events = <<>>
  /\ history = <<>>
  /\ emitted = <<>>
  /\ nErr = 0
  /\ answering = Idle
  /\ console = <<>>
  /\ session_id = SessionId(CallerId)
  /\ prior = <<>>

\* Popen.poll(): the empty set for None (still running), else the exit status.
poll == IF proc.state = "dead" THEN {proc.code} ELSE {}

Call(op, why, ret, code, arg) ==
  [op |-> op, why |-> why, ret |-> ret, code |-> code, arg |-> arg]

\* The call in progress ends: `rec` is what the caller gets.
Finish(rec) ==
  /\ history' = Append(history, rec)
  /\ pc' = "idle"

\* Completed calls of one operation.
Count(op) == Cardinality({i \in DOMAIN history : history[i].op = op})

\* The payload of the next send: requests are numbered in the order issued.
NextReq == Count("send") + 1

\* ------------------------------------------------------------------- start
\* start(): Popen, running = True, the three threads.  One start per wrapper.
start ==
  /\ pc = "idle"
  /\ process = "None"
  /\ process' = "Popen"
  /\ proc' = [state |-> "alive", code |-> 0]
  /\ stdinOpen' = TRUE
  /\ running' = TRUE
  /\ reader' = [STDOUT |-> "reading", STDERR |-> "reading"]
  /\ loggerPc' = "check"
  /\ UNCHANGED <<outVars, sessVars, sigterm, stdin, pipeVars, queueVars, event_log, warnings,
                 callerVars, emitted, nErr, answering>>

\* ---------------------------------------------------------------- send_raw
\* Lines 68-70: the liveness guard of send_raw.
send_poll ==
  /\ pc = "idle"
  /\ Count("send") < MaxSends
  /\ IF process = "None" \/ poll # {}
       THEN Finish(Call("send", "return", FALSE, {}, NextReq))
       ELSE pc' = "send_write" /\ UNCHANGED history
  /\ UNCHANGED <<outVars, sessVars, process, procVars, stdin, pipeVars, queueVars, running,
                 event_log, threadVars, events>>

\* Faulty variant: the write is not guarded, BrokenPipeError reaches the caller.
send_write_unguarded ==
  /\ pc = "send_write"
  /\ LET req == NextReq
     IN IF proc.state = "alive" /\ stdinOpen
          THEN /\ stdin' = Append(stdin, RawLine(req))
               /\ Finish(Call("send", "return", TRUE, {}, req))
          ELSE /\ stdin' = stdin
               /\ Finish(Call("send", "raised", <<>>, {}, req))
  /\ UNCHANGED <<outVars, sessVars, process, procVars, pipeVars, queueVars, running, event_log,
                 threadVars, events>>

\* Lines 73-79: write + flush; BrokenPipeError is caught and reported as False.
send_write ==
  /\ pc = "send_write"
  /\ LET req == NextReq
     IN IF proc.state = "alive" /\ stdinOpen
          THEN /\ stdin' = Append(stdin, RawLine(req))
               /\ Finish(Call("send", "return", TRUE, {}, req))
          ELSE /\ stdin' = stdin
               /\ Finish(Call("send", "return", FALSE, {}, req))
  /\ UNCHANGED <<outVars, sessVars, process, procVars, pipeVars, queueVars, running, event_log,
                 threadVars, events>>

\* A payload string is the sequence of the lines it holds.  json.dumps (line
\* 89) writes no line break, so what send_message passes on is one line; a
\* caller of send_raw passes any string, one line or more (a pretty-printed
\* JSON text has a line break inside).
json_dumps(req) == <<req>>
RawPayloads(req) == {json_dumps(req), <<req, req>>}

\* Line 74: write(payload_str + "\n"): every line of the payload goes down
\* the pipe, the last one ended by the newline that is added.
Written(payload) == [i \in DOMAIN payload |-> RawLine(payload[i])]

\* Lines 73-79 for a payload handed to send_raw by the caller.
send_raw_write ==
  /\ pc = "send_write"
  /\ \E payload \in RawPayloads(NextReq) :
       IF proc.state = "alive" /\ stdinOpen
         THEN /\ stdin' = stdin \o Written(payload)
              /\ Finish(Call("send", "return", TRUE, {}, payload))
         ELSE /\ stdin' = stdin
              /\ Finish(Call("send", "return", FALSE, {}, payload))
  /\ UNCHANGED <<outVars, sessVars, process, procVars, pipeVars, queueVars,
                 running, event_log, threadVars, events>>

\* --------------------------------------------------------- wait_for_result
\* Lines 92-95: start_time, events = [].
wait_call ==
  /\ pc = "idle"
  /\ Count("wait") < MaxWaits
  /\ pc' = "wait_top"
  /\ events' = <<>>
  /\ UNCHANGED <<outVars, sessVars, process, procVars, stdin, pipeVars, queueVars, running,
                 event_log, threadVars, history>>

\* Lines 137-144: check_status() polls and logs what it finds.
check_status == poll

\* Faulty variant: the failure return loses the events collected so far.
FailureReturnDropsEvents(evs) == <<FALSE, <<>>>>

\* Line 100 and line 104: return False, events
FailureReturn(evs) == <<FALSE, evs>>

\* Line 103: the exit status written to the error log.
ExitLogged == poll

\* Line 130: return True, events
SuccessReturn(evs) == <<TRUE, evs>>

\* Faulty variant: the timeout branch shuts the session down before it returns.
wait_timeout_stops ==
  /\ pc = "wait_top"
  /\ process = "Popen"
  /\ Finish(Call("wait", "timeout", FailureReturn(events), check_status, 0))
  /\ running' = FALSE
  /\ sigterm' = (proc.state = "alive")
  /\ UNCHANGED <<outVars, sessVars, process, proc, stdinOpen, emitted, nErr, answering, stdin,
                 pipeVars, queueVars, event_log, threadVars, events>>

wait_timeout ==
  /\ pc = "wait_top"
  /\ IF process = "None"
       THEN Finish(Call("wait", "no_process", <<>>, {}, 0))
       ELSE Finish(Call("wait", "timeout", FailureReturn(events), check_status, 0))
  /\ UNCHANGED <<outVars, sessVars, process, procVars, stdin, pipeVars, queueVars, running,
                 event_log, threadVars, events>>

\* Faulty variant: on the observed exit the loop first empties the queue into
\* the events it returns.
wait_poll_drains ==
  /\ pc = "wait_top"
  /\ CASE process = "None" ->
            /\ Finish(Call("wait", "no_process", <<>>, {}, 0))
            /\ UNCHANGED stdout_queue
       [] process = "Popen" /\ poll # {} ->
            /\ Finish(Call("wait", "exited",
                           FailureReturn(events \o stdout_queue), ExitLogged, 0))
            /\ stdout_queue' = <<>>
       [] OTHER -> pc' = "wait_get" /\ UNCHANGED <<history, stdout_queue>>
  /\ UNCHANGED <<outVars, sessVars, process, procVars, stdin, pipeVars, stderr_queue,
                 running, event_log, threadVars, events>>

\* Lines 102-104: the liveness poll.  On a wrapper that was never started
\* self.process is None and the attribute access raises ("no_process", as in
\* check_status on line 138).
wait_poll ==
  /\ pc = "wait_top"
  /\ CASE process = "None" ->
            Finish(Call("wait", "no_process", <<>>, {}, 0))
       [] process = "Popen" /\ poll # {} ->
            Finish(Call("wait", "exited", FailureReturn(events), ExitLogged, 0))
       [] OTHER -> pc' = "wait_get" /\ UNCHANGED history
  /\ UNCHANGED <<outVars, sessVars, process, procVars, stdin, pipeVars, queueVars, running,
                 event_log, threadVars, events>>

\* Lines 134-135: stdout_queue.get timed out on an empty queue.
wait_get_empty ==
  /\ pc = "wait_get"
  /\ stdout_queue = <<>>
  /\ pc' = "wait_top"
  /\ UNCHANGED <<outVars, sessVars, process, procVars, stdin, pipeVars, queueVars, running,
                 event_log, threadVars, events, history>>

\* Faulty variant: on a result the loop also takes what is behind it on the
\* queue and returns it with the events of the call.
wait_get_line_drains ==
  /\ pc = "wait_get"
  /\ stdout_queue # <<>>
  /\ LET line == Head(stdout_queue)
         event == json_loads(line)
         rest == [i \in DOMAIN Tail(stdout_queue) |-> EventOf(Tail(stdout_queue)[i])]
     IN IF event = NoEvent
          THEN /\ pc' = "wait_top"
               /\ stdout_queue' = Tail(stdout_queue)
               /\ UNCHANGED <<events, event_log, history, console>>
          ELSE /\ console' = console \o Effects(event)
               /\ CASE Dispatch(event) = "return" ->
                         /\ events' = Append(events, event) \o rest
                         /\ event_log' = Append(event_log, event) \o rest
                         /\ stdout_queue' = <<>>
                         /\ Finish(Call("wait", "result", SuccessReturn(events'), {}, 0))
                    [] Dispatch(event) = "raise" ->
                         /\ events' = Append(events, event)
                         /\ event_log' = Append(event_log, event)
                         /\ stdout_queue' = Tail(stdout_queue)
                         /\ Finish(Call("wait", "raised", <<>>, {}, 0))
                    [] OTHER ->
                         /\ events' = Append(events, event)
                         /\ event_log' = Append(event_log, event)
                         /\ stdout_queue' = Tail(stdout_queue)
                         /\ pc' = "wait_top" /\ UNCHANGED history
  /\ UNCHANGED <<sessVars, process, procVars, stdin, pipeVars, stderr_queue,
                 running, threadVars>>

\* Lines 107-133: one line is taken off the queue, decoded and dispatched.
wait_get_line ==
  /\ pc = "wait_get"
  /\ stdout_queue # <<>>
  /\ stdout_queue' = Tail(stdout_queue)
  /\ LET line == Head(stdout_queue)
         event == json_loads(line)
     IN IF event = NoEvent
          THEN \* except json.JSONDecodeError: logged when not blank, skipped
               /\ pc' = "wait_top"
               /\ UNCHANGED <<events, event_log, history, console>>
          ELSE /\ events' = Append(events, event)
               /\ event_log' = Append(event_log, event)
               /\ console' = console \o Effects(event)
               /\ CASE Dispatch(event) = "return" ->
                         Finish(Call("wait", "result", SuccessReturn(events'), {}, 0))
                    [] Dispatch(event) = "raise" ->
                         Finish(Call("wait", "raised", <<>>, {}, 0))
                    [] OTHER -> pc' = "wait_top" /\ UNCHANGED history
  /\ UNCHANGED <<sessVars, process, procVars, stdin, pipeVars, stderr_queue,
                 running, threadVars>>

\* -------------------------------------------------------------------- stop
\* Faulty variant: terminate() and wait() without looking at the process.
StopCallUnguarded(budget) ==
  /\ pc = "idle"
  /\ Count("stop") < budget
  /\ running' = FALSE
  /\ IF process = "Popen"
       THEN /\ sigterm' = TRUE
            /\ pc' = "stop_wait"
            /\ UNCHANGED history
       ELSE /\ Finish(Call("stop", "raised", <<>>, {}, 0))
            /\ UNCHANGED sigterm
  /\ UNCHANGED <<outVars, sessVars, process, proc, stdinOpen, emitted, nErr, answering,
                 stdin, pipeVars, queueVars, event_log, threadVars, events>>

\* Lines 147-149: running = False; terminate() when the process is alive.
\* `budget` is the number of stop calls the caller makes in the run.
StopCall(budget) ==
  /\ pc = "idle"
  /\ Count("stop") < budget
  /\ running' = FALSE
  /\ IF process = "Popen" /\ poll = {}
       THEN /\ sigterm' = TRUE
            /\ pc' = "stop_wait"
            /\ UNCHANGED history
       ELSE /\ Finish(Call("stop", "return", <<>>, {}, 0))
            /\ UNCHANGED sigterm
  /\ UNCHANGED <<outVars, sessVars, process, proc, stdinOpen, emitted, nErr, answering,
                 stdin, pipeVars, queueVars, event_log, threadVars, events>>

stop_begin == StopCall(MaxStops)

\* stop() in the runs where the caller calls it once more.
stop_repeat == StopCall(MaxStops + 1)

\* Line 150: process.wait(timeout=5) returns once the child is gone ...
stop_wait_return ==
  /\ pc = "stop_wait"
  /\ proc.state = "dead"
  /\ Finish(Call("stop", "return", <<>>, {}, 0))
  /\ UNCHANGED <<outVars, sessVars, process, procVars, stdin, pipeVars, queueVars, running,
                 event_log, threadVars, events>>

\* ... and raises subprocess.TimeoutExpired when the child outlives the grace
\* period (it handles or ignores SIGTERM); nothing in stop() catches it.
stop_wait_expired ==
  /\ pc = "stop_wait"
  /\ proc.state = "alive"
  /\ Finish(Call("stop", "raised", <<>>, {}, 0))
  /\ UNCHANGED <<outVars, sessVars, process, procVars, stdin, pipeVars, queueVars, running,
                 event_log, threadVars, events>>

\* ------------------------------------------------------------- the process
\* Shapes of the lines an arbitrary process writes in the wait-loop runs.
EmitShapes == {"garbage", "other", "error_obj", "error_str", "result"}
\* A diagnostic line that looks like a result event.
ErrShape == "result"

\* Every shape a line can have, for the runs that look at the dispatch alone.
AnyShapes == Shapes

\* One line goes down the stdout pipe.
Write(line) ==
  /\ stdoutPipe' = Append(stdoutPipe, RawLine(line))
  /\ emitted' = Append(emitted, line)

\* The process writes one line to its stdout.
proc_emit ==
  /\ proc.state = "alive"
  /\ Len(emitted) < MaxEmit
  /\ \E shape \in EmitShapes : Write(Line(shape, Len(emitted) + 1, 0))
  /\ UNCHANGED <<outVars, sessVars, process, proc, sigterm, stdinOpen, nErr, answering, stdin,
                 stderrPipe, queueVars, running, event_log, threadVars,
                 callerVars>>

\* The same, with no restriction on what the line holds.
proc_emit_any ==
  /\ proc.state = "alive"
  /\ Len(emitted) < MaxEmit
  /\ \E shape \in AnyShapes : Write(Line(shape, Len(emitted) + 1, 0))
  /\ UNCHANGED <<outVars, sessVars, process, proc, sigterm, stdinOpen, nErr, answering,
                 stdin, stderrPipe, queueVars, running, event_log, threadVars,
                 callerVars>>

\* The process writes one line to its stderr.
proc_emit_err ==
  /\ proc.state = "alive"
  /\ nErr < MaxErr
  /\ stderrPipe' = Append(stderrPipe, RawLine(Line(ErrShape, -(nErr + 1), 0)))
  /\ nErr' = nErr + 1
  /\ UNCHANGED <<outVars, sessVars, process, proc, sigterm, stdinOpen, emitted, answering, stdin,
                 stdoutPipe, queueVars, running, event_log, threadVars,
                 callerVars>>

\* The process exits on its own with some status.
proc_exit ==
  /\ proc.state = "alive"
  /\ \E code \in ExitCodes : proc' = [state |-> "dead", code |-> code]
  /\ stdinOpen' = FALSE
  /\ sigterm' = FALSE
  /\ UNCHANGED <<outVars, sessVars, process, emitted, nErr, answering, stdin, pipeVars, queueVars,
                 running, event_log, threadVars, callerVars>>

\* The process dies of the SIGTERM that terminate() sent.
proc_sigterm ==
  /\ proc.state = "alive"
  /\ sigterm
  /\ proc' = [state |-> "dead", code |-> -15]
  /\ stdinOpen' = FALSE
  /\ sigterm' = FALSE
  /\ UNCHANGED <<outVars, sessVars, process, emitted, nErr, answering, stdin, pipeVars, queueVars,
                 running, event_log, threadVars, callerVars>>

\* The process closes its stdin and keeps running.
proc_close_stdin ==
  /\ proc.state = "alive"
  /\ stdinOpen
  /\ stdinOpen' = FALSE
  /\ UNCHANGED <<outVars, sessVars, process, proc, sigterm, emitted, nErr, answering, stdin,
                 pipeVars, queueVars, running, event_log, threadVars,
                 callerVars>>

\* A process that answers the requests it reads, in the order received: some
\* non-terminal lines, then exactly one result, all tagged with the request.
AnswerShapes == {"thinking", "error_str"}

proc_read_request ==
  /\ proc.state = "alive"
  /\ answering = Idle
  /\ stdin # <<>>
  /\ stdin' = Tail(stdin)
  /\ \E n \in 0..MaxBody : answering' = [req |-> Strip(Head(stdin)), left |-> n]
  /\ UNCHANGED <<outVars, sessVars, process, proc, sigterm, stdinOpen, emitted, nErr, pipeVars,
                 queueVars, running, event_log, threadVars, callerVars>>

proc_answer_body ==
  /\ proc.state = "alive"
  /\ answering.req > 0
  /\ answering.left > 0
  /\ \E shape \in AnswerShapes : Write(Line(shape, Len(emitted) + 1, answering.req))
  /\ answering' = [answering EXCEPT !.left = @ - 1]
  /\ UNCHANGED <<outVars, sessVars, process, proc, sigterm, stdinOpen, nErr, stdin, stderrPipe,
                 queueVars, running, event_log, threadVars, callerVars>>

proc_answer_result ==
  /\ proc.state = "alive"
  /\ answering.req > 0
  /\ answering.left = 0
  /\ Write(Line("result", Len(emitted) + 1, answering.req))
  /\ answering' = Idle
  /\ UNCHANGED <<outVars, sessVars, process, proc, sigterm, stdinOpen, nErr, stdin, stderrPipe,
                 queueVars, running, event_log, threadVars, callerVars>>

\* ---------------------------------------------------------- _reader_thread
Pipe(name) == IF name = "STDOUT" THEN stdoutPipe ELSE stderrPipe

\* Faulty variant: the reader puts the line at the front of the queue.
ReaderPutFront(q, raw) == <<Strip(raw)>> \o q

\* Lines 52-54: readline returned a line; it is stripped and queued.
ReaderPut(q, raw) == Append(q, Strip(raw))

\* Faulty variant: both reader threads are given the primary queue.
reader_read_one_queue(name) ==
  /\ reader[name] = "reading"
  /\ Pipe(name) # <<>>
  /\ IF name = "STDOUT"
       THEN /\ stdoutPipe' = Tail(stdoutPipe)
            /\ stdout_queue' = ReaderPut(stdout_queue, Head(stdoutPipe))
            /\ UNCHANGED <<stderrPipe, stderr_queue>>
       ELSE /\ stderrPipe' = Tail(stderrPipe)
            /\ stdout_queue' = ReaderPut(stdout_queue, Head(stderrPipe))
            /\ UNCHANGED <<stdoutPipe, stderr_queue>>
  /\ UNCHANGED <<outVars, sessVars, process, procVars, stdin, running, event_log,
                 threadVars, callerVars>>

\* Lines 46-47 and 50-54: each reader thread moves the lines of its own pipe
\* to its own queue.
reader_read(name) ==
  /\ reader[name] = "reading"
  /\ Pipe(name) # <<>>
  /\ IF name = "STDOUT"
       THEN /\ stdoutPipe' = Tail(stdoutPipe)
            /\ stdout_queue' = ReaderPut(stdout_queue, Head(stdoutPipe))
            /\ UNCHANGED <<stderrPipe, stderr_queue>>
       ELSE /\ stderrPipe' = Tail(stderrPipe)
            /\ stderr_queue' = ReaderPut(stderr_queue, Head(stderrPipe))
            /\ UNCHANGED <<stdoutPipe, stdout_queue>>
  /\ UNCHANGED <<outVars, sessVars, process, procVars, stdin, running, event_log, threadVars,
                 callerVars>>

\* Line 52: readline returned '' (the process is gone and the pipe is empty).
reader_eof(name) ==
  /\ reader[name] = "reading"
  /\ Pipe(name) = <<>>
  /\ proc.state = "dead"
  /\ reader' = [reader EXCEPT ![name] = "done"]
  /\ UNCHANGED <<outVars, sessVars, process, procVars, stdin, pipeVars, queueVars, running,
                 event_log, loggerPc, warnings, callerVars>>

\* ----------------------------------------------------- a second wrapper
\* Line 207: ClaudeCLIWrapper(session_id) builds a new object for the
\* identifier of an existing one.  From here on the variables describe the
\* new object; the one it replaces goes on existing (`prior`) with its
\* process, its pipe, its queues, its log and its reader thread.
Replaced ==
  [session_id |-> session_id, proc |-> proc, stdoutPipe |-> stdoutPipe,
   stderrPipe |-> stderrPipe, stdout_queue |-> stdout_queue,
   stderr_queue |-> stderr_queue, event_log |-> event_log,
   running |-> running, reading |-> reader["STDOUT"] = "reading",
   ids |-> {emitted[k].id : k \in DOMAIN emitted} \cup {-k : k \in 1..nErr}]

\* Faulty variant: the queues and the log are shared by all the objects (they
\* are created once, not in __init__).
attach_shared ==
  /\ pc = "idle"
  /\ prior = <<>>
  /\ prior' = <<Replaced>>
  /\ session_id' = SessionId(session_id)
  /\ process' = "None"
  /\ proc' = [state |-> "unborn", code |-> 0]
  /\ sigterm' = FALSE
  /\ stdin' = <<>>
  /\ stdinOpen' = FALSE
  /\ stdoutPipe' = <<>>
  /\ stderrPipe' = <<>>
  /\ running' = FALSE
  /\ reader' = [STDOUT |-> "unstarted", STDERR |-> "unstarted"]
  /\ loggerPc' = "unstarted"
  /\ events' = <<>>
  /\ Finish(Call("attach", "return", <<>>, {}, 0))
  /\ UNCHANGED <<outVars, queueVars, event_log, warnings, emitted, nErr,
                 answering>>

\* Lines 15-21 run for the new object.
attach ==
  /\ pc = "idle"
  /\ prior = <<>>
  /\ prior' = <<Replaced>>
  /\ session_id' = SessionId(session_id)
  /\ process' = "None"
  /\ proc' = [state |-> "unborn", code |-> 0]
  /\ sigterm' = FALSE
  /\ stdin' = <<>>
  /\ stdinOpen' = FALSE
  /\ stdoutPipe' = <<>>
  /\ stderrPipe' = <<>>
  /\ stdout_queue' = <<>>
  /\ stderr_queue' = <<>>
  /\ running' = FALSE
  /\ event_log' = <<>>
  /\ reader' = [STDOUT |-> "unstarted", STDERR |-> "unstarted"]
  /\ loggerPc' = "unstarted"
  /\ events' = <<>>
  /\ Finish(Call("attach", "return", <<>>, {}, 0))
  /\ UNCHANGED <<outVars, warnings, emitted, nErr, answering>>

\* The process of the replaced object is still there and writes a line.
prior_emit ==
  /\ prior # <<>>
  /\ prior[1].proc.state = "alive"
  /\ Len(emitted) < MaxEmit
  /\ \E shape \in EmitShapes :
       LET line == Line(shape, Len(emitted) + 1, 0)
       IN /\ emitted' = Append(emitted, line)
          /\ prior' = <<[prior[1] EXCEPT
                           !.stdoutPipe = Append(@, RawLine(line)),
                           !.ids = @ \cup {line.id}]>>
  /\ UNCHANGED <<outVars, session_id, process, proc, sigterm, stdinOpen, nErr,
                 answering, stdin, pipeVars, queueVars, running, event_log,
                 threadVars, callerVars>>

\* The reader thread of the replaced object feeds the queue it was given.
prior_reader_read ==
  /\ prior # <<>>
  /\ prior[1].reading
  /\ prior[1].stdoutPipe # <<>>
  /\ prior' = <<[prior[1] EXCEPT
                   !.stdoutPipe = Tail(@),
                   !.stdout_queue = ReaderPut(@, Head(prior[1].stdoutPipe))]>>
  /\ UNCHANGED <<outVars, session_id, process, procVars, stdin, pipeVars,
                 queueVars, running, event_log, threadVars, callerVars>>

\* ---------------------------------------------------------- _stderr_logger
\* Faulty variant: the loop does not look at the flag.
logger_check_forever ==
  /\ loggerPc = "check"
  /\ loggerPc' = "get"
  /\ UNCHANGED <<outVars, sessVars, process, procVars, stdin, pipeVars,
                 queueVars, running, event_log, reader, warnings, callerVars>>

\* Line 60: while self.running
logger_check ==
  /\ loggerPc = "check"
  /\ loggerPc' = IF running THEN "get" ELSE "done"
  /\ UNCHANGED <<outVars, sessVars, process, procVars, stdin, pipeVars, queueVars, running,
                 event_log, reader, warnings, callerVars>>

\* Faulty variant: the line is taken off the queue and not logged.
logger_get_silent ==
  /\ loggerPc = "get"
  /\ stderr_queue # <<>>
  /\ stderr_queue' = Tail(stderr_queue)
  /\ loggerPc' = "check"
  /\ UNCHANGED <<outVars, sessVars, process, procVars, stdin, pipeVars,
                 stdout_queue, running, event_log, reader, warnings,
                 callerVars>>

\* Lines 62-63: a line was on the queue; it is logged as a warning.
logger_get ==
  /\ loggerPc = "get"
  /\ stderr_queue # <<>>
  /\ stderr_queue' = Tail(stderr_queue)
  /\ warnings' = Append(warnings, Head(stderr_queue))
  /\ loggerPc' = "check"
  /\ UNCHANGED <<outVars, sessVars, process, procVars, stdin, pipeVars, stdout_queue, running,
                 event_log, reader, callerVars>>

\* Lines 64-65: the get timed out.
logger_empty ==
  /\ loggerPc = "get"
  /\ stderr_queue = <<>>
  /\ loggerPc' = "check"
  /\ UNCHANGED <<outVars, sessVars, process, procVars, stdin, pipeVars, queueVars, running,
                 event_log, reader, warnings, callerVars>>

\* ----------------------------------------------------------- specification
\* The wait loop against an arbitrary process on its primary stream.
Next ==
  \/ start
  \/ wait_call
  \/ wait_timeout
  \/ wait_poll
  \/ wait_get_empty
  \/ wait_get_line
  \/ proc_emit
  \/ proc_exit
  \/ reader_read("STDOUT")
  \/ reader_eof("STDOUT")

Spec == Init /\ [][Next]_vars

\* The caller's thread keeps running, so a step of the loop that stays
\* possible is taken; the deadline test of line 97 is made at the top of every
\* iteration against a clock that goes on, so it cannot fail for ever.
WaitFairness ==
  /\ WF_vars(wait_poll)
  /\ WF_vars(wait_get_empty)
  /\ WF_vars(wait_get_line)
  /\ SF_vars(wait_timeout)

SpecFair == Spec /\ WaitFairness

\* The same with stop() among the caller's calls.
NextLife ==
  \/ start
  \/ wait_call
  \/ wait_timeout
  \/ wait_poll
  \/ wait_get_empty
  \/ wait_get_line
  \/ stop_begin
  \/ stop_wait_return
  \/ stop_wait_expired
  \/ proc_emit
  \/ proc_exit
  \/ proc_sigterm
  \/ reader_read("STDOUT")
  \/ reader_eof("STDOUT")

SpecLife == Init /\ [][NextLife]_vars

\* Start and stop with the diagnostic stream, its reader and its logger.
NextStop ==
  \/ start
  \/ stop_begin
  \/ stop_wait_return
  \/ stop_wait_expired
  \/ proc_emit_err
  \/ proc_exit
  \/ proc_sigterm
  \/ reader_read("STDERR")
  \/ reader_eof("STDERR")
  \/ logger_check
  \/ logger_get
  \/ logger_empty

SpecStop == Init /\ [][NextStop]_vars

\* The logger thread and the stderr reader thread keep running.
DrainFairness ==
  /\ WF_vars(logger_check)
  /\ WF_vars(logger_get)
  /\ WF_vars(logger_empty)
  /\ WF_vars(reader_read("STDERR"))

SpecStopFair == SpecStop /\ DrainFairness

\* Sends against a process that writes, exits or closes its input at any time.
NextSend ==
  \/ start
  \/ send_poll
  \/ send_write
  \/ stop_begin
  \/ stop_wait_return
  \/ stop_wait_expired
  \/ proc_emit
  \/ proc_exit
  \/ proc_sigterm
  \/ proc_close_stdin
  \/ reader_read("STDOUT")
  \/ reader_eof("STDOUT")

SpecSend == Init /\ [][NextSend]_vars

\* Sends of payloads the caller built itself, next to those of send_message.
NextRaw ==
  \/ start
  \/ send_poll
  \/ send_write
  \/ send_raw_write
  \/ proc_emit
  \/ proc_emit_err
  \/ proc_exit
  \/ proc_close_stdin
  \/ reader_read("STDOUT")
  \/ reader_read("STDERR")

SpecRaw == Init /\ [][NextRaw]_vars

\* Sends and waits against a live process that answers in order.
NextOrdered ==
  \/ start
  \/ send_poll
  \/ send_write
  \/ wait_call
  \/ wait_timeout
  \/ wait_poll
  \/ wait_get_empty
  \/ wait_get_line
  \/ proc_read_request
  \/ proc_answer_body
  \/ proc_answer_result
  \/ reader_read("STDOUT")

SpecOrdered == Init /\ [][NextOrdered]_vars

\* The wait loop on a live process whose lines hold anything at all.
NextShapes ==
  \/ start
  \/ wait_call
  \/ wait_timeout
  \/ wait_poll
  \/ wait_get_empty
  \/ wait_get_line
  \/ proc_emit_any
  \/ reader_read("STDOUT")

SpecShapes == Init /\ [][NextShapes]_vars

\* The wait loop while the process also writes to its diagnostic stream.
NextDiag ==
  \/ start
  \/ wait_call
  \/ wait_timeout
  \/ wait_poll
  \/ wait_get_empty
  \/ wait_get_line
  \/ proc_emit
  \/ proc_emit_err
  \/ reader_read("STDOUT")
  \/ reader_read("STDERR")
  \/ logger_check
  \/ logger_get
  \/ logger_empty

SpecDiag == Init /\ [][NextDiag]_vars

\* Start and repeated stops, the process writing and dying on its own terms.
NextIdem ==
  \/ start
  \/ stop_repeat
  \/ stop_wait_return
  \/ stop_wait_expired
  \/ proc_emit
  \/ proc_emit_err
  \/ proc_exit
  \/ proc_sigterm
  \/ reader_read("STDOUT")
  \/ reader_read("STDERR")
  \/ logger_check
  \/ logger_get
  \/ logger_empty

SpecIdem == Init /\ [][NextIdem]_vars

\* A wrapper, then a second one made for the same identifier.
NextAttach ==
  \/ start
  \/ wait_call
  \/ wait_poll
  \/ wait_get_empty
  \/ wait_get_line
  \/ proc_emit
  \/ proc_emit_err
  \/ reader_read("STDOUT")
  \/ reader_read("STDERR")
  \/ attach
  \/ prior_emit
  \/ prior_reader_read

SpecAttach == Init /\ [][NextAttach]_vars

\* ================================================================== claims
Last(seq) == seq[Len(seq)]

\* This step ends a call of `op`; EndedCall is what the caller got.
Ends(op) == Len(history') = Len(history) + 1 /\ Last(history').op = op
EndedCall == Last(history')

\* This step is the wait loop taking a line off the primary queue.
Dequeues ==
  pc = "wait_get" /\ stdout_queue # <<>> /\ stdout_queue' = Tail(stdout_queue)

\* Lines the process wrote to stdout that no wait has taken off the queue yet.
Pending == [i \in 1..Len(stdoutPipe) |-> Strip(stdoutPipe[i])]
PendingShapes ==
  {stdout_queue[i].shape : i \in DOMAIN stdout_queue}
    \cup {Pending[i].shape : i \in DOMAIN Pending}

\* C1: wait_for_result returns success iff a result event appears in the
\* primary stream before the deadline and before the process exits; a result
\* line the process emitted before exiting counts even when the loop observes
\* the exit before it dequeues that line.  Stated on the step that ends a
\* wait: a success has consumed a result, and a wait that ends on the observed
\* exit leaves no emitted result line behind it.
C1_ResultBeforeExitCounts ==
  [][Ends("wait") =>
       /\ EndedCall.why = "result" => Last(EndedCall.ret[2]).type = "result"
       /\ EndedCall.why = "exited" => "result" \notin PendingShapes]_vars

\* C2 (as claimed): when the process exits before emitting a result, the value
\* wait_for_result returns is a failure that carries the exit code together
\* with the events collected so far.
C2_ReturnCarriesExitCode ==
  \A i \in DOMAIN history :
    history[i].op = "wait" /\ history[i].why = "exited" =>
      /\ history[i].ret[1] = FALSE
      /\ Len(history[i].ret) = 3
      /\ history[i].ret[3] = proc.code

\* C2 (amended): a wait never succeeds unless the process emitted a result;
\* when the liveness poll observes the exit, the call returns the pair
\* (False, events collected so far) and the exit code goes to the error log
\* only.
C2_ExitReturnsPairLogsCode ==
  [][Ends("wait") =>
       /\ EndedCall.why = "result" =>
            \E k \in DOMAIN emitted : emitted[k].shape = "result"
       /\ EndedCall.why = "exited" =>
            /\ proc.state = "dead"
            /\ EndedCall.ret = <<FALSE, events>>
            /\ EndedCall.code = {proc.code}]_vars

C2_Witness ==
  \E i \in DOMAIN history :
    /\ history[i].op = "wait" /\ history[i].why = "exited"
    /\ history[i].code = {1}
    /\ Len(history[i].ret[2]) > 0
    /\ \A k \in DOMAIN emitted : emitted[k].shape # "result"

\* The decoded head of the primary queue, when the wait loop is about to take it.
HeadEvent == json_loads(Head(stdout_queue))

\* C3: an error-typed event on the primary queue, its error field a plain
\* string or an object with a message, is appended to the returned events and
\* to the event log and does not end the wait: the loop keeps running.
C3_ErrorEventDoesNotEndWait ==
  [][Dequeues /\ Head(stdout_queue).shape \in {"error_str", "error_obj"} =>
       /\ events' = Append(events, HeadEvent)
       /\ event_log' = Append(event_log, HeadEvent)
       /\ pc' = "wait_top"
       /\ history' = history]_vars

\* C4: a line of the primary queue that is not valid JSON is never added to
\* the returned events or to the event log and does not end the wait loop;
\* every entry the log gains is the decoded head of the queue, a JSON line.
C4_NonJsonSkipped ==
  [][/\ Dequeues /\ Head(stdout_queue).shape \in NonJsonShapes =>
          /\ events' = events
          /\ event_log' = event_log
          /\ pc' = "wait_top"
          /\ history' = history
     /\ event_log' # event_log =>
          /\ Dequeues
          /\ Head(stdout_queue).shape \notin NonJsonShapes
          /\ event_log' = Append(event_log, EventOf(Head(stdout_queue)))
          /\ events' = Append(events, EventOf(Head(stdout_queue)))]_vars

\* A wait skipped a non-JSON line and then returned success on the result
\* that followed it.
C4_Witness ==
  /\ Len(history) = 1
  /\ history[1].op = "wait" /\ history[1].why = "result"
  /\ emitted[1].shape = "garbage"
  /\ Len(history[1].ret[2]) = 1
  /\ history[1].ret[2][1].id = 2
  /\ event_log = history[1].ret[2]

\* The completed wait calls, in call order, and the answer to request r as
\* the decoded JSON lines the process wrote for it.
IsWait(c) == c.op = "wait"
Waits == SelectSeq(history, IsWait)
IsJson(line) == line.shape \notin NonJsonShapes
AnswerLines(r) ==
  LET ForR(line) == line.req = r /\ IsJson(line)
  IN SelectSeq(emitted, ForR)
AnswerEvents(r) == [k \in 1..Len(AnswerLines(r)) |-> EventOf(AnswerLines(r)[k])]

\* C5: on a live session whose process answers in order with one result per
\* request, the i-th wait returns the events of the i-th send, ending with its
\* result, and nothing of a later send.  Stated for runs in which every send
\* was accepted and no wait ran out of time or ran without a process.
C5_WaitsPairWithSends ==
  (/\ \A i \in DOMAIN history : history[i].op = "send" => history[i].ret = TRUE
   /\ \A i \in DOMAIN Waits : Waits[i].why \notin {"timeout", "no_process"})
  => \A i \in DOMAIN Waits :
       /\ Waits[i].why = "result"
       /\ Waits[i].ret[2] = AnswerEvents(i)

\* C6: after stop() has ended on a started session, a poll reports the process
\* as not running, and stop() did not raise.
C6_StopLeavesProcessDead ==
  (Len(history) > 0 /\ pc = "idle" /\ Last(history).op = "stop" /\ process = "Popen")
  => Last(history).why = "return" /\ poll # {}

\* C7: a wait that returns because its deadline expired leaves the session as
\* it was: the process is not signalled, the running flag is not cleared, no
\* line leaves the pipe or the primary queue, and the events collected are
\* handed back.
C7_TimeoutLeavesSessionAlive ==
  [][Ends("wait") /\ EndedCall.why = "timeout" =>
       /\ UNCHANGED <<process, proc, sigterm, running, stdout_queue, stdoutPipe,
                      stdin, stdinOpen, event_log>>
       /\ EndedCall.ret = <<FALSE, events>>]_vars

\* After a wait that timed out, a later wait returned success and a later
\* stop() ended with the process gone.
C7_Witness ==
  \E i, j, k \in DOMAIN history :
    /\ i < j /\ j < k
    /\ history[i].op = "wait" /\ history[i].why = "timeout"
    /\ history[j].op = "wait" /\ history[j].why = "result"
    /\ history[k].op = "stop" /\ history[k].why = "return"
    /\ proc = [state |-> "dead", code |-> -15]

\* C8: send never raises; it returns False exactly when the process was never
\* started, has exited, or has closed its input, and then nothing is written
\* and the event log, the queues and the running flag stay as they were.
C8_SendFailureIsAFalseReturn ==
  [][Ends("send") =>
       /\ EndedCall.why = "return"
       /\ EndedCall.ret = FALSE <=>
            (process = "None" \/ proc.state # "alive" \/ ~stdinOpen)
       /\ EndedCall.ret = FALSE =>
            UNCHANGED <<stdin, event_log, stdout_queue, stderr_queue, running>>
       /\ EndedCall.ret = TRUE => stdin' = Append(stdin, RawLine(EndedCall.arg))]_vars

\* A send was accepted and a later one was refused while the process was
\* still alive (it had closed its input): only the first line is on the pipe,
\* and the primary queue still holds what the reader put there.
C8_Witness ==
  /\ \E i, j \in DOMAIN history :
       /\ i < j
       /\ history[i].op = "send" /\ history[i].ret = TRUE
       /\ history[j].op = "send" /\ history[j].ret = FALSE
  /\ proc.state = "alive"
  /\ Len(stdin) = 1
  /\ stdout_queue # <<>>
  /\ running

\* The events the completed waits returned, concatenated in call order.
RECURSIVE Returned(_)
Returned(calls) ==
  IF calls = <<>> THEN <<>>
  ELSE LET c == Head(calls)
       IN (IF c.op = "wait" /\ c.why \in {"result", "timeout", "exited"}
             THEN c.ret[2] ELSE <<>>) \o Returned(Tail(calls))

\* A sequence of events follows the order of emission, without repetition.
InEmissionOrder(evs) ==
  \A i, j \in DOMAIN evs : i < j => evs[i].id < evs[j].id

\* C9: events are returned by wait and recorded in the event log in exactly
\* the order in which the process emitted their lines, across the reader, the
\* queue and any number of wait calls, and no line appears twice; each entry
\* is the decoded line the process emitted at that position.
C9_EmissionOrderKept ==
  /\ InEmissionOrder(event_log)
  /\ InEmissionOrder(Returned(history))
  /\ InEmissionOrder(events)
  /\ \A i \in DOMAIN event_log :
       /\ event_log[i].id \in DOMAIN emitted
       /\ event_log[i] = EventOf(emitted[event_log[i].id])

\* Two wait calls each returned an event, and the log holds both in order.
C9_Witness ==
  /\ Len(event_log) >= 2
  /\ \E i, j \in DOMAIN history :
       /\ i < j
       /\ history[i].op = "wait" /\ history[i].why = "timeout"
       /\ Len(history[i].ret[2]) > 0
       /\ history[j].op = "wait" /\ history[j].why = "result"
       /\ Len(history[j].ret[2]) > 0

\* C10: the event log mirrors what wait returns: between calls it is the
\* concatenation, in call order, of the event lists the waits returned.
C10_LogIsWhatWaitsReturned ==
  pc = "idle" => event_log = Returned(history)

\* JSON objects whose type is none of the recognized tags, or is missing.
UnrecognizedShapes == {"other", "notype"}

\* C11: a parsed event whose type is not a recognized tag, or is absent, is
\* neither discarded nor treated as an error: the step that takes its line off
\* the queue appends it unchanged to the events of the call and to the event
\* log, prints nothing, and the loop goes on without returning.
C11_UnrecognizedTypeIsKept ==
  [][Dequeues /\ Head(stdout_queue).shape \in UnrecognizedShapes =>
       /\ events' = Append(events, EventOf(Head(stdout_queue)))
       /\ event_log' = Append(event_log, EventOf(Head(stdout_queue)))
       /\ Last(events').id = Head(stdout_queue).id
       /\ Last(events').type \in {"other", "absent"}
       /\ console' = console
       /\ pc' = "wait_top"
       /\ history' = history]_vars

\* A wait returned an event without a type and the result that followed it.
C11_Witness ==
  /\ Len(history) = 1
  /\ history[1].op = "wait" /\ history[1].why = "result"
  /\ Len(history[1].ret[2]) = 2
  /\ history[1].ret[2][1].type = "absent"
  /\ history[1].ret[2][1].kind = "dict"
  /\ history[1].ret[2][2].type = "result"
  /\ event_log = history[1].ret[2]

\* A line of the primary stream: the process emitted it on stdout.
FromStdout(x) == x.id \in DOMAIN emitted

\* C12: no line of the diagnostic stream reaches event classification: the
\* primary queue, the events of the call in progress, the events the waits
\* returned and the event log hold lines of the primary stream only, and a
\* wait returns success only on a result the process wrote to stdout, even
\* when a diagnostic line looks like a result event.
C12_DiagnosticNeverClassified ==
  /\ \A i \in DOMAIN stdout_queue : FromStdout(stdout_queue[i])
  /\ \A i \in DOMAIN events : FromStdout(events[i])
  /\ \A i \in DOMAIN event_log : FromStdout(event_log[i])
  /\ \A i \in DOMAIN Returned(history) : FromStdout(Returned(history)[i])
  /\ \A i \in DOMAIN console : console[i].id \in DOMAIN emitted
  /\ \A i \in DOMAIN history :
       history[i].op = "wait" /\ history[i].why = "result" =>
         \E k \in DOMAIN emitted :
           emitted[k].shape = "result" /\ Last(history[i].ret[2]).id = k

\* The process wrote a result-shaped line to stderr and no result to stdout;
\* the line went through the diagnostic queue and was logged as a warning,
\* while a wait that had collected an event ran out of time.
C12_Witness ==
  /\ \E i \in DOMAIN warnings : warnings[i].shape = "result"
  /\ \A k \in DOMAIN emitted : emitted[k].shape # "result"
  /\ \E i \in DOMAIN history :
       /\ history[i].op = "wait" /\ history[i].why = "timeout"
       /\ Len(history[i].ret[2]) > 0
  /\ pc = "wait_get"

\* This step is the caller entering stop().
StopBegins == pc = "idle" /\ (pc' = "stop_wait" \/ Ends("stop"))

\* C13: stop() on a session whose process is dead (it exited on its own or an
\* earlier stop() ended it) or was never started sends no signal and raises
\* nothing; it returns at once and leaves the session as a single stop()
\* would: the flag cleared and nothing else touched.
C13_StopIsIdempotent ==
  [][StopBegins /\ (process = "None" \/ proc.state = "dead") =>
       /\ Ends("stop")
       /\ EndedCall.why = "return"
       /\ sigterm' = sigterm
       /\ running' = FALSE
       /\ UNCHANGED <<process, proc, stdin, stdinOpen, stdoutPipe, stderrPipe,
                      stdout_queue, stderr_queue, event_log, reader, loggerPc,
                      warnings, console>>]_vars

\* A stop() ended the process, and a second stop() on the dead process
\* returned; what the reader had queued is still there.
C13_Witness ==
  /\ Len(history) = 2
  /\ history[1].op = "stop" /\ history[1].why = "return"
  /\ history[2].op = "stop" /\ history[2].why = "return"
  /\ proc = [state |-> "dead", code |-> -15]
  /\ ~running /\ ~sigterm
  /\ stdout_queue # <<>>

\* C14: once wait_for_result has observed the exit of the process it drains
\* nothing more: the step that returns the failure takes no line off the
\* primary queue or the pipe, so every line queued at that moment is still
\* there, in the same order, when the call has returned.
C14_NoDrainAfterExit ==
  [][Ends("wait") /\ EndedCall.why = "exited" =>
       /\ stdout_queue' = stdout_queue
       /\ stdoutPipe' = stdoutPipe
       /\ EndedCall.ret = <<FALSE, events>>
       /\ event_log' = event_log]_vars

\* A wait returned on the observed exit while two lines were on the queue.
C14_Witness ==
  /\ pc = "idle"
  /\ Len(history) > 0
  /\ Last(history).op = "wait" /\ Last(history).why = "exited"
  /\ Len(stdout_queue) = 2
  /\ stdout_queue[1].id < stdout_queue[2].id

\* The category of each recognized type, and the lines whose branch runs to
\* its end (an error given as a string or a message that is no object makes
\* its branch raise: C3).
RecognizedTypes ==
  {"thinking", "status", "tool_use", "assistant", "user", "error", "result"}
Category(type) ==
  CASE type \in {"thinking", "status"} -> "progress"
    [] type = "tool_use" -> "tool_use"
    [] type \in {"assistant", "user"} -> "message"
    [] type = "error" -> "error"
    [] type = "result" -> "result"
BranchCompletes ==
  {"thinking", "status", "tool_use", "assistant_nested", "assistant_text",
   "user_nested", "user_nomsg", "error_obj", "error_absent", "result"}
NestedToolShapes == {"assistant_nested", "user_nested"}

\* What this step added to the console.
Printed == SubSeq(console', Len(console) + 1, Len(console'))

\* C15: every parsed event of a recognized type is routed to exactly one
\* category: what the dispatch prints for it belongs to the category of its
\* type and to no other; where the branch runs to its end, progress, a
\* top-level tool call, an error and the terminal result print one entry and
\* a message prints none of its own, only a result ends the wait, and a
\* tool_use is reported both as a top-level event and as a content block
\* nested in an assistant or a user message.
C15_OneCategoryPerEvent ==
  [][Dequeues /\ IsJson(Head(stdout_queue))
       /\ HeadEvent.kind = "dict" /\ HeadEvent.type \in RecognizedTypes =>
       LET line == Head(stdout_queue)
           cat == Category(HeadEvent.type)
       IN /\ Len(Printed) <= 1
          /\ \A i \in DOMAIN Printed :
               /\ Printed[i].id = line.id
               /\ IF cat = "message"
                    THEN Printed[i].cat = "tool_use" /\ Printed[i].nested
                    ELSE Printed[i].cat = cat /\ ~Printed[i].nested
          /\ line.shape \in BranchCompletes =>
               /\ cat # "message" => Len(Printed) = 1
               /\ (line.shape \in NestedToolShapes) <=>
                    (Len(Printed) = 1 /\ Printed[1].nested)
               /\ (cat = "tool_use") <=>
                    (Len(Printed) = 1 /\ Printed[1].cat = "tool_use"
                       /\ ~Printed[1].nested)
               /\ (cat = "result") <=> (Ends("wait") /\ EndedCall.why = "result")
               /\ cat # "result" => pc' = "wait_top" /\ history' = history]_vars

\* The loop has reported a top-level tool call and one nested in a user
\* message, and is still running.
C15_Witness ==
  /\ Len(console) = 2
  /\ console[1].cat = "tool_use" /\ ~console[1].nested
  /\ console[2].cat = "tool_use" /\ console[2].nested
  /\ event_log[2].type = "user"
  /\ pc = "wait_top"

\* The calls completed on the new object, once there is one.
SinceAttach ==
  LET k == CHOOSE i \in DOMAIN history : history[i].op = "attach"
  IN SubSeq(history, k + 1, Len(history))

\* A line or an event that the replaced object's process wrote.
OfPrior(x) == x.id \in prior[1].ids
NoneOfPrior(seq) == \A i \in DOMAIN seq : ~OfPrior(seq[i])

\* C16: a wrapper made for the identifier of an existing one carries over
\* nothing but the identifier: right after its construction it has the same
\* identifier, an empty event log, empty primary and diagnostic queues, the
\* running flag cleared and no process; and from then on nothing the earlier
\* object's process wrote is in its pipes, its queues, the events of its
\* waits or its event log, whatever the earlier process and reader still do.
C16_AttachCarriesOnlyTheIdentifier ==
  /\ [][Ends("attach") =>
          /\ session_id' = session_id
          /\ event_log' = <<>>
          /\ stdout_queue' = <<>> /\ stderr_queue' = <<>>
          /\ running' = FALSE
          /\ process' = "None"]_vars
  /\ [](prior # <<>> =>
          /\ session_id = prior[1].session_id
          /\ NoneOfPrior([i \in DOMAIN stdoutPipe |-> Strip(stdoutPipe[i])])
          /\ NoneOfPrior([i \in DOMAIN stderrPipe |-> Strip(stderrPipe[i])])
          /\ NoneOfPrior(stdout_queue)
          /\ NoneOfPrior(stderr_queue)
          /\ NoneOfPrior(events)
          /\ NoneOfPrior(event_log)
          /\ NoneOfPrior(Returned(SinceAttach)))

\* The first wrapper had logged an event and had a line on its diagnostic
\* queue when the second was made, and its process was still running; the
\* second wrapper's wait returned the result of its own process.
C16_Witness ==
  /\ prior # <<>>
  /\ prior[1].event_log # <<>>
  /\ prior[1].stderr_queue # <<>>
  /\ prior[1].running
  /\ Len(event_log) = 1
  /\ Last(history).op = "wait" /\ Last(history).why = "result"
  /\ Returned(SinceAttach) = event_log

\* The positions of the caller inside wait_for_result, and the ways the call
\* hands a value back.
WaitPcs == {"wait_top", "wait_get"}
WaitReturns == {"result", "exited", "timeout"}

\* C17: every wait_for_result call on a started session eventually returns,
\* whatever the process does: by a result, by the observed exit of the
\* process, or by the deadline.
C17_EveryWaitReturns ==
  \A n \in 0..(MaxWaits - 1) :
    (pc \in WaitPcs /\ process = "Popen" /\ Len(history) = n)
      ~> (Len(history) > n /\ history[n + 1].why \in WaitReturns)

\* This step is the logger taking a line off the diagnostic queue.
Pops == Len(stderr_queue') < Len(stderr_queue)

\* C18: once stop() has cleared the running flag the diagnostic drain ends at
\* its next wake: it starts no queue pop after the flag is cleared (from the
\* flag test it can only leave), a pop that was already under way brings it
\* back to the flag test, so at most one pop follows the clearing; it does
\* end; and it never ends while the flag is set.
C18_DrainEndsOnNextWake ==
  /\ [][/\ (loggerPc = "check" /\ ~running) => loggerPc' \in {"check", "done"}
        /\ Pops => loggerPc = "get" /\ loggerPc' = "check"
        /\ (loggerPc # "done" /\ loggerPc' = "done") => ~running]_vars
  /\ (~running /\ loggerPc \in {"check", "get"}) ~> (loggerPc = "done")

\* stop() cleared the flag and the drain has ended, leaving on the queue a
\* line that the reader put there.
C18_Witness ==
  /\ loggerPc = "done"
  /\ ~running
  /\ \E i \in DOMAIN history : history[i].op = "stop"
  /\ stderr_queue # <<>>

\* The diagnostic lines the process has written, in the order written, and
\* the same lines as they stand now: logged, queued or still in the pipe.
ErrIds == [k \in 1..nErr |-> -k]
IdsOf(seq) == [i \in DOMAIN seq |-> seq[i].id]
ErrLinesNow ==
  IdsOf(warnings) \o IdsOf(stderr_queue)
    \o [i \in DOMAIN stderrPipe |-> Strip(stderrPipe[i]).id]

\* Each diagnostic line is logged at most once and in the order written:
\* the logged lines, then the queued ones, then those in the pipe, are the
\* lines the process wrote.
SurfacedInOrder == ErrLinesNow = ErrIds

C20_SendAppendsOneLine ==
  [][Ends("send") /\ EndedCall.ret = TRUE =>
       /\ Len(stdin') = Len(stdin) + 1
       /\ SubSeq(stdin', 1, Len(stdin)) = stdin
       /\ Last(stdin').nl
       /\ \A i \in DOMAIN stdin : Strip(stdin[i]) < Strip(Last(stdin'))
       /\ UNCHANGED <<event_log, stdout_queue, stderr_queue, running,
                      process>>]_vars

\* The lines of the primary stream, by where they are: given to a wait as
\* events, on the queue, in the pipe.
LoggedIds == {event_log[i].id : i \in DOMAIN event_log}
QueuedIds == {stdout_queue[i].id : i \in DOMAIN stdout_queue}
PipedIds == {Strip(stdoutPipe[i]).id : i \in DOMAIN stdoutPipe}

\* The number of result events in a list of events.
IsResult(event) == event.type = "result"
Results(evs) == Len(SelectSeq(evs, IsResult))

\* C21: wait_for_result takes at most one line off the primary queue per loop
\* iteration (a step that shortens the queue removes its head alone, from
\* inside the loop, and goes back to the top of the loop or ends the call),
\* and nothing after the first result it consumes: that step ends the call
\* and leaves what follows on the queue, nothing is taken between two calls,
\* a returned list holds at most one result, as its last event, and no line
\* is given to two calls or is still queued once it was consumed.
C21_NothingTakenAfterResult ==
  /\ [][/\ Len(stdout_queue') < Len(stdout_queue) =>
             /\ pc = "wait_get"
             /\ stdout_queue' = Tail(stdout_queue)
             /\ pc' \in {"wait_top", "idle"}
        /\ Dequeues /\ Head(stdout_queue).shape = "result" =>
             /\ Ends("wait") /\ EndedCall.why = "result"
             /\ Last(EndedCall.ret[2]).id = Head(stdout_queue).id
        /\ pc = "idle" => Len(stdout_queue') >= Len(stdout_queue)]_vars
  /\ [](/\ \A i \in DOMAIN history :
              history[i].op = "wait" /\ history[i].why \in WaitReturns =>
                LET evs == history[i].ret[2]
                IN /\ Results(evs) <= 1
                   /\ Results(evs) = 1 => IsResult(Last(evs))
         /\ InEmissionOrder(Returned(history)
                               \o (IF pc \in WaitPcs THEN events ELSE <<>>))
         /\ LoggedIds \cap QueuedIds = {}
         /\ LoggedIds \cap PipedIds = {}
         /\ QueuedIds \cap PipedIds = {})

\* A wait returned on a result while another line was behind it on the
\* queue; the next wait was given that line, and only that line.
C21_Witness ==
  /\ Len(history) = 2
  /\ history[1].op = "wait" /\ history[1].why = "result"
  /\ Len(history[1].ret[2]) = 1 /\ history[1].ret[2][1].id = 1
  /\ history[2].op = "wait" /\ history[2].why = "timeout"
  /\ Len(history[2].ret[2]) = 1 /\ history[2].ret[2][1].id = 2
  /\ stdout_queue = <<>>

\* C22: no content of a line on the primary queue makes wait_for_result end
\* abnormally: whatever the line holds (text that is no JSON, JSON that is no
\* object, an object with any type and any form of its error, message or
\* content fields), the step that takes it off the queue goes back to the top
\* of the loop or returns a (success flag, events) pair, and never raises.
C22_NoLineMakesWaitRaise ==
  [][Dequeues =>
       \/ pc' = "wait_top" /\ history' = history
       \/ /\ Ends("wait")
          /\ EndedCall.why \in WaitReturns
          /\ EndedCall.ret \in {<<TRUE, events'>>, <<FALSE, events'>>}]_vars

====
